---- MODULE Spec2Model ----
(***************************************************************************)
(* LiveScribe WebSocket transcription server                               *)
(* (src/LiveScribe/PythonServer/server.py).                                *)
(*                                                                         *)
(* One handler coroutine per connection reads text (JSON control) and      *)
(* binary (float32 audio) messages, keeps a per-connection Session         *)
(* (active flag + overlap samples), hands stitched audio to the engine in  *)
(* an executor and sends response frames back.                             *)
(***************************************************************************)
EXTENDS Integers, Sequences, FiniteSets, TLC

\* ------------------------------------------------------------------ bounds

\* Connections the server may accept.
NConns == 3
\* Worker threads of the loop's default executor (run_in_executor(None, ...)):
\* min(32, cpu_count + 4) in CPython, scaled down here.
PoolWorkers == 2
\* Messages a client sends on one connection.
MaxMsgs == 3
\* Longest audio chunk, in whole float32 samples.
MaxSamples == 3
\* server.py:77 sets int(SAMPLE_RATE * 0.15) = 2400; scaled down here.
OVERLAP_SAMPLES == 2

Conns == 1..NConns
\* Spec drives one connection; the others stay unconnected.
SoloConns == {1}

\* Sample values (float32 bit patterns, read as little-endian words).
Samples == {1, 2}
\* Trailing bytes a client may append after the whole samples.
Remainders == {<<>>, <<7>>, <<7, 7>>, <<7, 7, 7>>}
\* What the engine may return for a call.
Texts == {"", "hello"}

\* ------------------------------------------------------------ pure helpers

Min(a, b) == IF a < b THEN a ELSE b

SeqsUpTo(S, n) == UNION {[1..k -> S] : k \in 0..n}

\* numpy .tobytes() of one float32 sample: 4 bytes, little-endian.
EncodeSample(s) ==
    <<s % 256, (s \div 256) % 256, (s \div 65536) % 256, (s \div 16777216) % 256>>

RECURSIVE tobytes(_)
tobytes(samples) ==
    IF samples = <<>> THEN <<>>
    ELSE EncodeSample(Head(samples)) \o tobytes(Tail(samples))

\* One "<f4" element from 4 bytes.
DecodeSample(b) == b[1] + 256 * b[2] + 65536 * b[3] + 16777216 * b[4]

\* np.frombuffer(message, dtype="<f4"): raises ValueError unless the byte
\* length is a multiple of the element size.
frombuffer_raises(bytes) == Len(bytes) % 4 # 0

frombuffer(bytes) ==
    [i \in 1..(Len(bytes) \div 4) |->
        DecodeSample(SubSeq(bytes, 4 * i - 3, 4 * i))]

\* Python slice chunk[-n:] for n > 0.
LastSlice(chunk, n) ==
    SubSeq(chunk, Len(chunk) - Min(n, Len(chunk)) + 1, Len(chunk))

\* ---------------------------------------------------------------- messages

TextPayloads ==
    { "{\"type\": \"start\"}", "{\"type\": \"stop\"}", "{\"type\": \"pause\"}",
      "{}", "[]", "null", "start", "{\"type\": " }

None == "<None>"

\* A lenient parser: the bare word start is taken as the start command.
json_loads_lenient(s) ==
    IF s \in {"{\"type\": \"start\"}", "start"}
    THEN [ok |-> TRUE, kind |-> "dict", type |-> "start"]
    ELSE [ok |-> FALSE, kind |-> "", type |-> None]

\* json.loads on the payloads above: ok = FALSE is JSONDecodeError.
json_loads(s) ==
    CASE s = "{\"type\": \"start\"}" -> [ok |-> TRUE, kind |-> "dict", type |-> "start"]
      [] s = "{\"type\": \"stop\"}"  -> [ok |-> TRUE, kind |-> "dict", type |-> "stop"]
      [] s = "{\"type\": \"pause\"}" -> [ok |-> TRUE, kind |-> "dict", type |-> "pause"]
      [] s = "{}"                    -> [ok |-> TRUE, kind |-> "dict", type |-> None]
      [] s = "[]"                    -> [ok |-> TRUE, kind |-> "list", type |-> None]
      [] s = "null"                  -> [ok |-> TRUE, kind |-> "NoneType", type |-> None]
      [] OTHER                       -> [ok |-> FALSE, kind |-> "", type |-> None]

\* cmd.get("type") exists only on a dict; anything else is AttributeError.
get_raises(cmd) == cmd.kind # "dict"

TextMsg(s) == [kind |-> "str", text |-> s, bytes |-> <<>>]
BinaryMsg(b) == [kind |-> "bytes", text |-> "", bytes |-> b]
NoMsg == [kind |-> "none", text |-> "", bytes |-> <<>>]

BinaryPayloads ==
    {tobytes(s) \o r : s \in SeqsUpTo(Samples, MaxSamples), r \in Remainders}

Messages ==
    {TextMsg(s) : s \in TextPayloads} \cup {BinaryMsg(b) : b \in BinaryPayloads}

\* ------------------------------------------------------------------ frames

TranscriptFrame(t) ==
    [type |-> "transcript", text |-> t, is_final |-> FALSE, message |-> ""]
ErrorFrame(m) ==
    [type |-> "error", text |-> "", is_final |-> FALSE, message |-> m]

\* ------------------------------------------------------------------- state

VARIABLES
    pc,         \* handler position: unconnected, recv, body, await, done, crashed
    transport,  \* "open" or "closed"
    active,     \* session.active
    overlap,    \* session.overlap
    message,    \* message the loop body is running on
    audio,      \* buffer handed to transcriber.transcribe
    future,     \* the executor call: none, pending, result, exception
    sent,       \* frames written to the connection, in order
    nrecv,      \* messages received so far
    branch,     \* history: which branch of the loop body ran last
    prevChunk,  \* history: the last two chunks decoded since the last start/stop
    inbox,      \* messages the client sent that the loop has not read yet
    stall,      \* connections whose engine calls never return
    main        \* main(): position, bind attempt, last bind error, sleeps made

vars == <<pc, transport, active, overlap, message, audio, future, sent,
          nrecv, branch, prevChunk, inbox, stall, main>>

NoFuture == [state |-> "none", text |-> ""]
Pending == [state |-> "pending", text |-> ""]
Running == [state |-> "running", text |-> ""]
Result(t) == [state |-> "result", text |-> t]
Raised == [state |-> "exception", text |-> ""]

InitConns ==
    /\ pc = [c \in Conns |-> "unconnected"]
    /\ transport = [c \in Conns |-> "closed"]
    /\ active = [c \in Conns |-> FALSE]
    /\ overlap = [c \in Conns |-> <<>>]
    /\ message = [c \in Conns |-> NoMsg]
    /\ audio = [c \in Conns |-> <<>>]
    /\ future = [c \in Conns |-> NoFuture]
    /\ sent = [c \in Conns |-> <<>>]
    /\ nrecv = [c \in Conns |-> 0]
    /\ branch = [c \in Conns |-> "none"]
    /\ prevChunk = [c \in Conns |-> <<>>]
    /\ inbox = [c \in Conns |-> <<>>]

\* main() before its first bind attempt.
Starting == [pc |-> "bind", attempt |-> 1, errno |-> 0, slept |-> <<>>]

\* main() inside "async with websockets.serve(...)", bound at the first attempt.
Listening == [pc |-> "serving", attempt |-> 1, errno |-> 0, slept |-> <<>>]

\* The server is listening and no client has connected yet.
Init == InitConns /\ stall = {} /\ main = Listening

\* ----------------------------------------------------------------- actions

\* ws.send taken to succeed on a closed connection.
_send_unchecked(c, payload) ==
    sent' = [sent EXCEPT ![c] = Append(@, payload)]

\* _send: ws.send, with ConnectionClosed swallowed.
_send(c, payload) ==
    sent' = [sent EXCEPT ![c] =
                IF transport[c] = "open" THEN Append(@, payload) ELSE @]

\* reset that keeps the overlap of the session before.
reset_keeps_overlap(c) ==
    /\ active' = [active EXCEPT ![c] = TRUE]
    /\ UNCHANGED overlap

\* One session shared by every connection.
reset_shared(c) ==
    /\ active' = [d \in Conns |-> TRUE]
    /\ overlap' = [d \in Conns |-> <<>>]

\* Session.reset
reset(c) ==
    /\ active' = [active EXCEPT ![c] = TRUE]
    /\ overlap' = [overlap EXCEPT ![c] = <<>>]

\* stop that keeps the overlap.
stop_keeps_overlap(c) ==
    /\ active' = [active EXCEPT ![c] = FALSE]
    /\ UNCHANGED overlap

\* Session.stop
stop(c) ==
    /\ active' = [active EXCEPT ![c] = FALSE]
    /\ overlap' = [overlap EXCEPT ![c] = <<>>]

\* The head of the chunk kept instead of its tail.
NewOverlap_head(chunk) ==
    IF Len(chunk) >= OVERLAP_SAMPLES THEN SubSeq(chunk, 1, OVERLAP_SAMPLES) ELSE chunk

\* The whole chunk kept as overlap, whatever its length.
NewOverlap_whole(chunk) == chunk

\* session.overlap = chunk[-OVERLAP_SAMPLES:] if len(chunk) >= OVERLAP_SAMPLES else chunk
NewOverlap(chunk) ==
    IF Len(chunk) >= OVERLAP_SAMPLES THEN LastSlice(chunk, OVERLAP_SAMPLES) ELSE chunk

\* The overlap never prepended.
Stitch_drop(ov, chunk) == chunk

\* np.concatenate([session.overlap, chunk]) if len(session.overlap) > 0 else chunk
Stitch(ov, chunk) == IF Len(ov) > 0 THEN ov \o chunk ELSE chunk

\* History kept for the stitching properties: the chunk in hand and the one
\* before it.
LastTwo(chunks) ==
    IF Len(chunks) <= 2 THEN chunks ELSE SubSeq(chunks, Len(chunks) - 1, Len(chunks))

\* The idle check left out.
not_active_never(c) == FALSE

\* if not session.active: continue
not_active(c) == ~active[c]

\* The byte count taken for the sample count.
n_samples_bytes(bytes) == Len(bytes)

\* n_samples = len(message) // 4
n_samples(bytes) == Len(bytes) \div 4

\* The emptiness test left out.
HasText_always(t) == TRUE

\* if text:
HasText(t) == t # ""

\* An uncaught exception leaves handler(); the library closes the connection.
Crash(c, why) ==
    /\ pc' = [pc EXCEPT ![c] = "crashed"]
    /\ transport' = [transport EXCEPT ![c] = "closed"]
    /\ branch' = [branch EXCEPT ![c] = why]

\* A client connects: handler() starts with a fresh Session.
Accept(c) ==
    /\ main.pc = "serving"
    /\ pc[c] = "unconnected"
    /\ pc' = [pc EXCEPT ![c] = "recv"]
    /\ transport' = [transport EXCEPT ![c] = "open"]
    /\ active' = [active EXCEPT ![c] = FALSE]
    /\ overlap' = [overlap EXCEPT ![c] = <<>>]
    /\ UNCHANGED <<message, audio, future, sent, nrecv, branch, prevChunk>>
    /\ UNCHANGED <<inbox, stall, main>>

\* async for message in websocket: the next message arrives.
Recv(c, m) ==
    /\ pc[c] = "recv"
    /\ transport[c] = "open"
    /\ nrecv[c] < MaxMsgs
    /\ pc' = [pc EXCEPT ![c] = "body"]
    /\ message' = [message EXCEPT ![c] = m]
    /\ nrecv' = [nrecv EXCEPT ![c] = @ + 1]
    /\ UNCHANGED <<transport, active, overlap, audio, future, sent, branch, prevChunk>>
    /\ UNCHANGED <<inbox, stall, main>>

\* Loop body, text branch.
HandleText(c) ==
    /\ pc[c] = "body"
    /\ message[c].kind = "str"
    /\ LET cmd == json_loads(message[c].text) IN
       IF ~cmd.ok THEN
            /\ _send(c, ErrorFrame("Invalid JSON"))
            /\ pc' = [pc EXCEPT ![c] = "recv"]
            /\ branch' = [branch EXCEPT ![c] = "invalid_json"]
            /\ UNCHANGED <<transport, active, overlap, prevChunk>>
       ELSE IF get_raises(cmd) THEN
            /\ Crash(c, "attribute_error")
            /\ UNCHANGED <<active, overlap, sent, prevChunk>>
       ELSE IF cmd.type = "start" THEN
            /\ reset(c)
            /\ pc' = [pc EXCEPT ![c] = "recv"]
            /\ branch' = [branch EXCEPT ![c] = "start"]
            /\ prevChunk' = [prevChunk EXCEPT ![c] = <<>>]
            /\ UNCHANGED <<transport, sent>>
       ELSE IF cmd.type = "stop" THEN
            /\ stop(c)
            /\ pc' = [pc EXCEPT ![c] = "recv"]
            /\ branch' = [branch EXCEPT ![c] = "stop"]
            /\ prevChunk' = [prevChunk EXCEPT ![c] = <<>>]
            /\ UNCHANGED <<transport, sent>>
       ELSE
            /\ pc' = [pc EXCEPT ![c] = "recv"]
            /\ branch' = [branch EXCEPT ![c] = "other_type"]
            /\ UNCHANGED <<transport, active, overlap, sent, prevChunk>>
    /\ UNCHANGED <<message, audio, future, nrecv, inbox, stall, main>>

\* Loop body, binary branch, up to the run_in_executor call.
HandleBinary(c) ==
    /\ pc[c] = "body"
    /\ message[c].kind = "bytes"
    /\ LET bytes == message[c].bytes IN
       IF not_active(c) THEN
            /\ pc' = [pc EXCEPT ![c] = "recv"]
            /\ branch' = [branch EXCEPT ![c] = "idle_audio"]
            /\ UNCHANGED <<transport, overlap, audio, future, prevChunk>>
       ELSE IF n_samples(bytes) = 0 THEN
            /\ pc' = [pc EXCEPT ![c] = "recv"]
            /\ branch' = [branch EXCEPT ![c] = "no_samples"]
            /\ UNCHANGED <<transport, overlap, audio, future, prevChunk>>
       ELSE IF frombuffer_raises(bytes) THEN
            /\ Crash(c, "value_error")
            /\ UNCHANGED <<overlap, audio, future, prevChunk>>
       ELSE
            LET chunk == frombuffer(bytes) IN
            /\ audio' = [audio EXCEPT ![c] = Stitch(overlap[c], chunk)]
            /\ overlap' = [overlap EXCEPT ![c] = NewOverlap(chunk)]
            /\ future' = [future EXCEPT ![c] = Pending]
            /\ pc' = [pc EXCEPT ![c] = "await"]
            /\ branch' = [branch EXCEPT ![c] = "chunk"]
            /\ prevChunk' = [prevChunk EXCEPT ![c] = LastTwo(Append(@, chunk))]
            /\ UNCHANGED transport
    /\ UNCHANGED <<message, active, sent, nrecv, inbox, stall, main>>

\* The default executor starts a queued call when one of its threads is idle.
WorkerFree == Cardinality({d \in Conns : future[d] = Running}) < PoolWorkers

\* A pool thread picks the call up and enters transcriber.transcribe.
WorkerStart(c) ==
    /\ future[c] = Pending
    /\ WorkerFree
    /\ future' = [future EXCEPT ![c] = Running]
    /\ UNCHANGED <<pc, transport, active, overlap, message, audio, sent,
                   nrecv, branch, prevChunk, inbox, stall, main>>

\* transcriber.transcribe returns a text in the executor thread.
EngineReturn(c, t) ==
    /\ future[c] = Running
    /\ c \notin stall
    /\ future' = [future EXCEPT ![c] = Result(t)]
    /\ UNCHANGED <<pc, transport, active, overlap, message, audio, sent,
                   nrecv, branch, prevChunk, inbox, stall, main>>

\* transcriber.transcribe raises in the executor thread.
EngineRaise(c) ==
    /\ future[c] = Running
    /\ c \notin stall
    /\ future' = [future EXCEPT ![c] = Raised]
    /\ UNCHANGED <<pc, transport, active, overlap, message, audio, sent,
                   nrecv, branch, prevChunk, inbox, stall, main>>

\* The await completes and the handler goes on from line 152.
Resume(c) ==
    /\ pc[c] = "await"
    /\ future[c].state \in {"result", "exception"}
    /\ future' = [future EXCEPT ![c] = NoFuture]
    /\ audio' = [audio EXCEPT ![c] = <<>>]
    /\ IF future[c].state = "exception" THEN
            /\ Crash(c, "engine_error")
            /\ UNCHANGED sent
       ELSE IF HasText(future[c].text) THEN
            /\ _send(c, TranscriptFrame(future[c].text))
            /\ pc' = [pc EXCEPT ![c] = "recv"]
            /\ branch' = [branch EXCEPT ![c] = "transcript"]
            /\ UNCHANGED transport
       ELSE
            /\ pc' = [pc EXCEPT ![c] = "recv"]
            /\ branch' = [branch EXCEPT ![c] = "no_text"]
            /\ UNCHANGED <<transport, sent>>
    /\ UNCHANGED <<active, overlap, message, nrecv, prevChunk, inbox, stall, main>>

Next ==
    \E c \in SoloConns :
        \/ Accept(c)
        \/ \E m \in Messages : Recv(c, m)
        \/ HandleText(c)
        \/ HandleBinary(c)
        \/ WorkerStart(c)
        \/ \E t \in Texts : EngineReturn(c, t)
        \/ EngineRaise(c)
        \/ Resume(c)

Spec == Init /\ [][Next]_vars

\* ------------------------------------------------ the client closes

\* The client closes the connection (or the transport drops).
ClientClose(c) ==
    /\ pc[c] \in {"recv", "body", "await"}
    /\ transport[c] = "open"
    /\ transport' = [transport EXCEPT ![c] = "closed"]
    /\ UNCHANGED <<pc, active, overlap, message, audio, future, sent,
                   nrecv, branch, prevChunk, inbox, stall, main>>

\* async for on a closed connection: ConnectionClosed ends the loop, the
\* except clauses swallow it and handler() returns.
HandlerClosed(c) ==
    /\ pc[c] = "recv"
    /\ transport[c] = "closed"
    /\ pc' = [pc EXCEPT ![c] = "done"]
    /\ UNCHANGED <<transport, active, overlap, message, audio, future, sent,
                   nrecv, branch, prevChunk, inbox, stall, main>>

\* The steps of handler() and of the executor for connection c.
HandlerStep(c) ==
    \/ HandleText(c)
    \/ HandleBinary(c)
    \/ WorkerStart(c)
    \/ \E t \in Texts : EngineReturn(c, t)
    \/ EngineRaise(c)
    \/ Resume(c)

\* Messages of the client that may close: one of each kind the loop tells apart.
CloseMessages ==
    { TextMsg("{\"type\": \"start\"}"), TextMsg("{\"type\": \"stop\"}"),
      TextMsg("start"), BinaryMsg(tobytes(<<1>>)), BinaryMsg(tobytes(<<1, 2, 2>>)) }

NextClose ==
    \E c \in SoloConns :
        \/ Accept(c)
        \/ \E m \in CloseMessages : Recv(c, m)
        \/ HandlerStep(c)
        \/ ClientClose(c)
        \/ HandlerClosed(c)

SpecClose == Init /\ [][NextClose]_vars

\* ------------------------------------------- messages queued by the client

\* The loop reads while a call is still awaited.
CanRead_concurrent(c) == pc[c] \in {"recv", "await"}

\* The loop body has run to its end: control is back at the async for.
CanRead(c) == pc[c] = "recv"

\* The newest message read first.
NextMessage_last(q) == q[Len(q)]

\* The async iterator yields the messages in arrival order.
NextMessage(q) == Head(q)

\* The client sends a message; it waits in the connection's queue.
ClientSend(c, m) ==
    /\ pc[c] \in {"recv", "body", "await"}
    /\ transport[c] = "open"
    /\ nrecv[c] + Len(inbox[c]) < MaxMsgs
    /\ inbox' = [inbox EXCEPT ![c] = Append(@, m)]
    /\ UNCHANGED <<pc, transport, active, overlap, message, audio, future, sent,
                   nrecv, branch, prevChunk, stall, main>>

\* async for message in websocket: the next queued message is read.
RecvQueued(c) ==
    /\ CanRead(c)
    /\ transport[c] = "open"
    /\ inbox[c] # <<>>
    /\ pc' = [pc EXCEPT ![c] = "body"]
    /\ message' = [message EXCEPT ![c] = NextMessage(inbox[c])]
    /\ inbox' = [inbox EXCEPT ![c] = Tail(@)]
    /\ nrecv' = [nrecv EXCEPT ![c] = @ + 1]
    /\ UNCHANGED <<transport, active, overlap, audio, future, sent, branch,
                   prevChunk, stall, main>>

QueueMessages ==
    { TextMsg("{\"type\": \"start\"}"), TextMsg("{\"type\": \"stop\"}"),
      TextMsg("start"), BinaryMsg(tobytes(<<1>>)), BinaryMsg(tobytes(<<1, 2, 2>>)) }

NextQueue ==
    \E c \in SoloConns :
        \/ Accept(c)
        \/ \E m \in QueueMessages : ClientSend(c, m)
        \/ RecvQueued(c)
        \/ HandlerStep(c)

SpecQueue == Init /\ [][NextQueue]_vars

\* ------------------------------------------------- concurrent connections

\* Two connections served at once.
PairConns == {1, 2}

\* Control, audio, malformed and failing messages.
PairMessages ==
    { TextMsg("{\"type\": \"start\"}"), TextMsg("{\"type\": \"stop\"}"),
      TextMsg("start"), TextMsg("[]"), BinaryMsg(tobytes(<<1>>)) }

NextPair ==
    \E c \in PairConns :
        \/ Accept(c)
        \/ \E m \in PairMessages : Recv(c, m)
        \/ HandlerStep(c)

SpecPair == Init /\ [][NextPair]_vars

\* ---------------------------------------------------- stalled engine calls

\* Each client starts a session and sends one chunk.
PoolScript == <<TextMsg("{\"type\": \"start\"}"), BinaryMsg(tobytes(<<1>>))>>

RecvScript(c) ==
    /\ nrecv[c] < Len(PoolScript)
    /\ Recv(c, PoolScript[nrecv[c] + 1])

\* Any number of connections may be the ones whose engine calls never return;
\* connections being interchangeable, they are taken to be the first ones.
InitPool == InitConns /\ stall \in {1..k : k \in 0..NConns} /\ main = Listening

NextPool ==
    \E c \in Conns :
        \/ Accept(c)
        \/ RecvScript(c)
        \/ HandlerStep(c)

\* The event loop runs a handler that can go on, the executor starts a queued
\* call when a thread is idle, and a call that is not stalled comes back. At
\* most one of these steps is enabled for a connection at a time.
FairPool == \A c \in Conns : WF_vars(HandlerStep(c))

SpecPool == InitPool /\ [][NextPool]_vars /\ FairPool

\* ------------------------------------------------------- startup binding

\* server.py:196, the errno compared with (EADDRINUSE on Darwin and the BSDs,
\* the platform of the Swift application that starts this server).
EADDRINUSE == 48
\* server.py:188, range(1, 7): attempts 1 to 6.
RangeStop == 7
\* server.py:196, attempt < 6.
RetryBelow == 6
\* server.py:198, asyncio.sleep(2).
RetryDelay == 2

\* errno of a failed bind: address in use, permission denied, address not
\* available.
Errnos == {EADDRINUSE, 13, 49}

\* Every address-in-use failure retried, whatever the attempt.
ShouldRetry_always(e, attempt) == e = EADDRINUSE

\* if e.errno == 48 and attempt < 6
ShouldRetry(e, attempt) == e = EADDRINUSE /\ attempt < RetryBelow

\* websockets.serve binds: main() stays inside the async with for ever.
BindOk ==
    /\ main.pc = "bind"
    /\ main' = [main EXCEPT !.pc = "serving"]
    /\ UNCHANGED <<pc, transport, active, overlap, message, audio, future, sent,
                   nrecv, branch, prevChunk, inbox, stall>>

\* websockets.serve raises OSError(e): sleep and retry, or re-raise out of
\* main() and asyncio.run(), which ends the process with a traceback.
BindFail(e) ==
    /\ main.pc = "bind"
    /\ main' = [main EXCEPT !.errno = e,
                            !.pc = IF ShouldRetry(e, main.attempt)
                                   THEN "sleep" ELSE "raised"]
    /\ UNCHANGED <<pc, transport, active, overlap, message, audio, future, sent,
                   nrecv, branch, prevChunk, inbox, stall>>

\* asyncio.sleep(2) is over and the for loop takes the next attempt; when
\* the range is used up the loop ends and main() returns.
Sleep ==
    /\ main.pc = "sleep"
    /\ main' = [main EXCEPT !.slept = Append(@, RetryDelay),
                            !.attempt = @ + 1,
                            !.pc = IF main.attempt + 1 < RangeStop
                                   THEN "bind" ELSE "returned"]
    /\ UNCHANGED <<pc, transport, active, overlap, message, audio, future, sent,
                   nrecv, branch, prevChunk, inbox, stall>>

\* The whole program: main() binds, then one connection is served.
InitBind == InitConns /\ stall = {} /\ main = Starting

NextBind ==
    \/ BindOk
    \/ \E e \in Errnos : BindFail(e)
    \/ Sleep
    \/ \E c \in SoloConns :
          \/ Accept(c)
          \/ \E m \in PairMessages : Recv(c, m)
          \/ HandlerStep(c)

SpecBind == InitBind /\ [][NextBind]_vars

TypeOK ==
    /\ main.pc \in {"bind", "sleep", "serving", "raised", "returned"}
    /\ main.attempt \in 1..RangeStop
    /\ \A c \in Conns :
          /\ pc[c] \in {"unconnected", "recv", "body", "await", "done", "crashed"}
          /\ transport[c] \in {"open", "closed"}
          /\ active[c] \in BOOLEAN
          /\ overlap[c] \in SeqsUpTo(Samples, OVERLAP_SAMPLES)
          /\ nrecv[c] \in 0..MaxMsgs

\* ------------------------------------------------------------- properties

\* The last n elements of s, or all of s when it has fewer.
TailOf(s, n) ==
    LET k == IF Len(s) < n THEN Len(s) ELSE n
    IN  [i \in 1..k |-> s[Len(s) - k + i]]

\* The handler of c is about to run the loop body on a message.
AtBody(c) == pc[c] = "body"
IsText(c) == AtBody(c) /\ message[c].kind = "str"
IsBinary(c) == AtBody(c) /\ message[c].kind = "bytes"

\* Payloads by what they are, listed independently of json_loads.
StartPayloads == {"{\"type\": \"start\"}"}
StopPayloads == {"{\"type\": \"stop\"}"}
MalformedPayloads == {"start", "{\"type\": "}
OtherObjectPayloads == {"{\"type\": \"pause\"}", "{}"}

SessionUnchanged(c) == active'[c] = active[c] /\ overlap'[c] = overlap[c]
HandlerGoesOn(c) == pc'[c] = "recv" /\ transport'[c] = "open"
NoEngineCall(c) == future'[c] = NoFuture /\ pc'[c] # "await"

\* C1: while an engine call is outstanding, the buffer handed to the engine is
\* the chunk alone when it is the first chunk since start, and otherwise the
\* last OVERLAP_SAMPLES samples of the previous chunk (all of it if shorter)
\* followed by the chunk; its length is b + min(OVERLAP_SAMPLES, a).
C1_StitchedBuffer ==
    \A c \in Conns :
        pc[c] = "await" =>
            LET k == Len(prevChunk[c]) IN
            /\ k >= 1
            /\ k = 1 => audio[c] = prevChunk[c][1]
            /\ k = 2 =>
                /\ audio[c] = TailOf(prevChunk[c][1], OVERLAP_SAMPLES) \o prevChunk[c][2]
                /\ Len(audio[c]) =
                     Len(prevChunk[c][2]) + Min(OVERLAP_SAMPLES, Len(prevChunk[c][1]))

\* A second chunk is in the engine and the chunk before it was longer than the overlap.
C1_Witness ==
    /\ pc[1] = "await"
    /\ Len(prevChunk[1]) = 2
    /\ Len(prevChunk[1][1]) > OVERLAP_SAMPLES
    /\ prevChunk[1][1][1] # prevChunk[1][1][Len(prevChunk[1][1])]
    /\ Len(audio[1]) = Len(prevChunk[1][2]) + OVERLAP_SAMPLES

\* C2: a start message, in any session state, leaves the session active with
\* an empty overlap; and the first chunk decoded after it goes to the engine
\* with nothing prepended.
C2_StartResets ==
    [][\A c \in Conns :
        /\ (IsText(c) /\ message[c].text \in StartPayloads) =>
              (active'[c] /\ overlap'[c] = <<>> /\ HandlerGoesOn(c))
        /\ (active[c] /\ prevChunk[c] = <<>> /\ pc[c] = "body" /\ pc'[c] = "await") =>
              audio'[c] = frombuffer(message[c].bytes)
      ]_vars

\* A start was handled as the third message, after a chunk that was answered:
\* the session it reset was active with a non-empty overlap.
C2_Witness ==
    /\ branch[1] = "start"
    /\ message[1].text \in StartPayloads
    /\ nrecv[1] = 3
    /\ Len(sent[1]) = 1 /\ sent[1][1].type = "transcript"
    /\ active[1] /\ overlap[1] = <<>>

\* C3: a stop message, in any session state, leaves the session idle with an
\* empty overlap and sends no frame.
C3_StopClears ==
    [][\A c \in Conns :
        (IsText(c) /\ message[c].text \in StopPayloads) =>
            (~active'[c] /\ overlap'[c] = <<>> /\ sent'[c] = sent[c] /\ HandlerGoesOn(c))
      ]_vars

\* A stop was handled as the third message, after a chunk that was answered.
C3_Witness ==
    /\ branch[1] = "stop"
    /\ message[1].text \in StopPayloads
    /\ nrecv[1] = 3
    /\ Len(sent[1]) = 1 /\ sent[1][1].type = "transcript"
    /\ ~active[1] /\ overlap[1] = <<>>

\* C4: a binary message of any length handled while the session is idle makes
\* no engine call, sends no frame and leaves active and overlap unchanged.
C4_IdleAudioIgnored ==
    [][\A c \in Conns :
        (IsBinary(c) /\ ~active[c]) =>
            /\ NoEngineCall(c)
            /\ sent'[c] = sent[c]
            /\ SessionUnchanged(c)
            /\ HandlerGoesOn(c)
      ]_vars

\* An odd-length audio message was handled after a stop and nothing was sent.
C4_Witness ==
    /\ branch[1] = "idle_audio"
    /\ pc[1] = "recv"
    /\ message[1].kind = "bytes"
    /\ Len(message[1].bytes) > 4 /\ Len(message[1].bytes) % 4 # 0
    /\ nrecv[1] = 3
    /\ sent[1] = <<>>
    /\ ~active[1] /\ overlap[1] = <<>>

\* C5: when the handler resumes from an engine call that returned, it sends
\* exactly one transcript frame with the returned text and is_final false if
\* the text is non-empty, and nothing if it is empty; and a transcript frame
\* is added to a connection in no other step.
C5_TranscriptIffText ==
    [][\A c \in Conns :
        /\ (pc[c] = "await" /\ future[c].state = "result" /\ pc'[c] # "await") =>
              sent'[c] = IF future[c].text = ""
                         THEN sent[c]
                         ELSE Append(sent[c],
                                 [type |-> "transcript", text |-> future[c].text,
                                  is_final |-> FALSE, message |-> ""])
        /\ (\E i \in 1..Len(sent'[c]) : i > Len(sent[c]) /\ sent'[c][i].type = "transcript") =>
              /\ pc[c] = "await" /\ future[c].state = "result" /\ future[c].text # ""
              /\ Len(sent'[c]) = Len(sent[c]) + 1
      ]_vars

\* One call returned text and was answered, the next returned nothing and was not.
C5_Witness ==
    /\ branch[1] = "no_text"
    /\ pc[1] = "recv"
    /\ sent[1] = <<TranscriptFrame("hello")>>
    /\ Len(prevChunk[1]) = 2

\* C6: a text message that is not JSON yields exactly one error frame, leaves
\* active and overlap as they were, and the handler goes on to the next message.
C6_InvalidJson ==
    [][\A c \in Conns :
        (IsText(c) /\ message[c].text \in MalformedPayloads) =>
            /\ Len(sent'[c]) = Len(sent[c]) + 1
            /\ SubSeq(sent'[c], 1, Len(sent[c])) = sent[c]
            /\ sent'[c][Len(sent'[c])].type = "error"
            /\ SessionUnchanged(c)
            /\ HandlerGoesOn(c)
      ]_vars

\* Malformed text was answered with an error while a session with overlap was
\* running, and the session is as it was.
C6_Witness ==
    /\ branch[1] = "invalid_json"
    /\ message[1].text \in MalformedPayloads
    /\ pc[1] = "recv" /\ transport[1] = "open"
    /\ nrecv[1] = 3
    /\ Len(sent[1]) = 1 /\ sent[1][1] = ErrorFrame("Invalid JSON")
    /\ active[1] /\ overlap[1] # <<>>

\* C7 (as claimed): when the engine call raised, the handler sends exactly one
\* error frame on the connection and goes on to the next message.
C7_EngineErrorReported ==
    [][\A c \in Conns :
        (pc[c] = "await" /\ future[c].state = "exception" /\ pc'[c] # "await") =>
            /\ Len(sent'[c]) = Len(sent[c]) + 1
            /\ sent'[c][Len(sent'[c])].type = "error"
            /\ HandlerGoesOn(c)
      ]_vars

\* C8 (as claimed): a JSON object whose type is neither start nor stop, or is
\* missing, yields an error frame and leaves the session unchanged.
C8_UnknownTypeError ==
    [][\A c \in Conns :
        (IsText(c) /\ message[c].text \in OtherObjectPayloads) =>
            /\ Len(sent'[c]) = Len(sent[c]) + 1
            /\ sent'[c][Len(sent'[c])].type = "error"
            /\ SessionUnchanged(c)
      ]_vars

\* C9 (as claimed): a binary message handled while active, of at least 4 bytes
\* and not a multiple of 4, is decoded as its first floor(len/4) samples,
\* stitched and handed to the engine, the overlap is updated, and the handler
\* does not end.
C9_RemainderDiscarded ==
    [][\A c \in Conns :
        (IsBinary(c) /\ active[c] /\ Len(message[c].bytes) >= 4
                     /\ Len(message[c].bytes) % 4 # 0) =>
            LET whole == SubSeq(message[c].bytes, 1, 4 * (Len(message[c].bytes) \div 4))
                chunk == frombuffer(whole)
            IN  /\ pc'[c] = "await"
                /\ transport'[c] = "open"
                /\ audio'[c] = overlap[c] \o chunk
                /\ overlap'[c] = TailOf(chunk, OVERLAP_SAMPLES)
      ]_vars

\* C10: a binary message of 0 to 3 bytes handled while active makes no engine
\* call, sends no frame, leaves overlap and active unchanged and does not end
\* the handler.
C10_ShortAudioIgnored ==
    [][\A c \in Conns :
        (IsBinary(c) /\ active[c] /\ Len(message[c].bytes) <= 3) =>
            /\ NoEngineCall(c)
            /\ sent'[c] = sent[c]
            /\ SessionUnchanged(c)
            /\ HandlerGoesOn(c)
      ]_vars

\* A 3-byte message was handled in a session that holds an overlap.
C10_Witness ==
    /\ branch[1] = "no_samples"
    /\ pc[1] = "recv" /\ transport[1] = "open"
    /\ message[1].kind = "bytes" /\ Len(message[1].bytes) = 3
    /\ active[1] /\ overlap[1] # <<>>
    /\ future[1] = NoFuture

\* C11 (as claimed): the first frame sent on a connection is the ready frame,
\* so ready precedes every transcript and error frame.
C11_ReadyFirst ==
    \A c \in Conns : sent[c] # <<>> => sent[c][1].type = "ready"

\* The step in which the loop body hands a chunk to the engine.
CallStep(c) == pc[c] = "body" /\ pc'[c] = "await"

\* C16 (as claimed): for every engine call the stitched buffer is as long as
\* the overlap before the call plus the chunk, and that overlap is empty or
\* exactly OVERLAP_SAMPLES long.
C16_OverlapExact ==
    [][\A c \in Conns :
        CallStep(c) =>
            /\ Len(audio'[c]) = Len(overlap[c]) + (Len(message[c].bytes) \div 4)
            /\ Len(overlap[c]) \in {0, OVERLAP_SAMPLES}
      ]_vars

\* C16 (amended): for every engine call the stitched buffer is as long as the
\* overlap before the call plus the chunk, and that overlap is empty or as
\* long as min(OVERLAP_SAMPLES, length of the previous chunk).
C16_OverlapAtMost ==
    [][\A c \in Conns :
        CallStep(c) =>
            /\ Len(audio'[c]) = Len(overlap[c]) + (Len(message[c].bytes) \div 4)
            /\ \/ overlap[c] = <<>>
               \/ /\ prevChunk[c] # <<>>
                  /\ Len(overlap[c]) =
                       Min(OVERLAP_SAMPLES, Len(prevChunk[c][Len(prevChunk[c])]))
      ]_vars

\* A call whose overlap came from a chunk shorter than OVERLAP_SAMPLES.
C16_Witness ==
    /\ pc[1] = "await"
    /\ Len(prevChunk[1]) = 2
    /\ Len(prevChunk[1][1]) \in 1..(OVERLAP_SAMPLES - 1)
    /\ Len(audio[1]) = Len(prevChunk[1][1]) + Len(prevChunk[1][2])

\* C17: the stored overlap of every connection is between 0 and
\* OVERLAP_SAMPLES samples long.
C17_OverlapBounded ==
    \A c \in Conns : Len(overlap[c]) \in 0..OVERLAP_SAMPLES

\* A chunk longer than OVERLAP_SAMPLES left an overlap of exactly that length.
C17_Witness ==
    /\ pc[1] = "await"
    /\ prevChunk[1] # <<>>
    /\ Len(prevChunk[1][Len(prevChunk[1])]) > OVERLAP_SAMPLES
    /\ Len(overlap[1]) = OVERLAP_SAMPLES

\* The overlap the session held before its last chunk was received.
OverlapBeforeLast(c) ==
    IF Len(prevChunk[c]) = 2 THEN TailOf(prevChunk[c][1], OVERLAP_SAMPLES) ELSE <<>>

\* C18 (as claimed): after an engine call failed, the session is active and
\* holds the overlap it had before the failing chunk was received.
C18_FailureKeepsSession ==
    \A c \in Conns :
        branch[c] = "engine_error" =>
            (active[c] /\ overlap[c] = OverlapBeforeLast(c))

NonObjectPayloads == {"[]", "null"}

\* C19 (as claimed): whatever text message is handled, the handler goes on to
\* the next message; and for unparseable text, an object of unknown type and
\* JSON that is not an object the session is left unchanged.
C19_TextNeverEnds ==
    [][\A c \in Conns :
        IsText(c) =>
            /\ HandlerGoesOn(c)
            /\ message[c].text \in
                  (MalformedPayloads \cup OtherObjectPayloads \cup NonObjectPayloads)
                  => SessionUnchanged(c)
      ]_vars

\* q is an initial part of r.
IsPrefix(q, r) == Len(q) <= Len(r) /\ SubSeq(r, 1, Len(q)) = q

ControlPayloads == StartPayloads \cup StopPayloads

\* C12: the loop takes a message only from the front of the queue and only
\* when no call is outstanding; while a message is in hand no other is taken;
\* and a frame is sent only by the step that ends the handling of the message
\* in hand, so frames come in the order of the messages that caused them.
C12_OneAtATimeInOrder ==
    [][\A c \in Conns :
        /\ (pc[c] = "recv" /\ pc'[c] = "body") =>
              /\ inbox[c] # <<>>
              /\ message'[c] = inbox[c][1]
              /\ inbox'[c] = SubSeq(inbox[c], 2, Len(inbox[c]))
              /\ future[c] = NoFuture
        /\ pc[c] \in {"body", "await"} =>
              (message'[c] = message[c] /\ IsPrefix(inbox[c], inbox'[c]))
        /\ sent'[c] # sent[c] =>
              /\ pc[c] \in {"body", "await"} /\ pc'[c] = "recv"
              /\ Len(sent'[c]) = Len(sent[c]) + 1
              /\ IsPrefix(sent[c], sent'[c])
      ]_vars

\* A chunk was answered while the next message was already waiting, and that
\* message is still first in the queue.
C12_Witness ==
    /\ pc[1] = "recv"
    /\ branch[1] = "transcript"
    /\ Len(sent[1]) = 1
    /\ Len(inbox[1]) = 1
    /\ inbox[1][1].kind = "bytes"
    /\ nrecv[1] = 2

\* An engine call of c is outstanding and a control message waits behind it.
ControlWaits(c) ==
    /\ pc[c] = "await"
    /\ future[c].state \in {"pending", "running"}
    /\ inbox[c] # <<>>
    /\ inbox[c][1].text \in ControlPayloads

\* C20 (as claimed): a control message that arrived while the engine call of
\* an earlier chunk is outstanding can be read at once.
C20_ControlNotDelayed ==
    \A c \in Conns : ControlWaits(c) => ENABLED RecvQueued(c)

\* C20 (amended): a control message that arrived while the engine call of an
\* earlier chunk is outstanding stays first in the queue, and the session is
\* left as it is, until the handler has resumed from that call.
C20_ControlWaitsForCall ==
    [][\A c \in Conns :
        (pc[c] = "await" /\ inbox[c] # <<>> /\ inbox[c][1].text \in ControlPayloads) =>
            /\ inbox'[c] # <<>> /\ inbox'[c][1] = inbox[c][1]
            /\ SessionUnchanged(c)
            /\ message'[c] = message[c]
      ]_vars

\* The call has returned, the stop sent during it is still queued and the
\* session is still active.
C20_Witness ==
    /\ pc[1] = "await"
    /\ future[1].state = "result"
    /\ inbox[1] # <<>>
    /\ inbox[1][1].text \in StopPayloads
    /\ active[1]

\* Something of connection c moves in the step.
Moves(c) ==
    \/ pc'[c] # pc[c]
    \/ message'[c] # message[c]
    \/ future'[c] # future[c]
    \/ nrecv'[c] # nrecv[c]

\* C13: a step of one connection (a control, audio, malformed or failing
\* message being received or handled, or its engine call) changes neither
\* the active flag nor the overlap of any other connection, sends no frame
\* on any other connection and moves no other handler.
C13_ConnectionsIndependent ==
    [][\A c \in Conns : \A d \in Conns \ {c} :
        Moves(c) =>
            /\ active'[d] = active[d]
            /\ overlap'[d] = overlap[d]
            /\ sent'[d] = sent[d]
            /\ ~Moves(d)
      ]_vars

\* One connection got an error frame and then ended on a failing message,
\* idle throughout, while the other holds a session with overlap and its own
\* transcript.
C13_Witness ==
    /\ pc[2] = "crashed" /\ ~active[2] /\ sent[2] = <<ErrorFrame("Invalid JSON")>>
    /\ pc[1] = "recv" /\ active[1] /\ overlap[1] # <<>>
    /\ sent[1] = <<TranscriptFrame("hello")>>

\* The handler of c has a message in hand or awaits its engine call.
Busy(c) == pc[c] \in {"body", "await"}
\* The handler of c is through with the message it had in hand.
Through(c) == pc[c] \in {"recv", "crashed"}

\* C14 (as claimed): whatever number of connections have engine calls that
\* never return, every other connection gets through each message it takes
\* in hand: its control messages are applied and its chunks answered.
C14_ProgressAnyStalled ==
    \A c \in Conns : (c \notin stall /\ Busy(c)) ~> Through(c)

\* C14, as far as it holds: every connection's control messages are applied
\* whatever the number of stalled calls, and while fewer connections are
\* stalled than the executor has worker threads every other connection's
\* chunks are transcribed and answered.
C14_ProgressWhileWorkerLeft ==
    /\ \A c \in Conns : (pc[c] = "body" /\ message[c].kind = "str") ~> Through(c)
    /\ \A c \in Conns :
          (Cardinality(stall) < PoolWorkers /\ c \notin stall /\ Busy(c)) ~> Through(c)

\* A stalled call holds a worker thread and another connection's chunk has
\* been transcribed and answered meanwhile.
C14_Witness ==
    /\ stall = {1}
    /\ future[1] = Running
    /\ pc[2] = "recv" /\ branch[2] = "transcript"
    /\ sent[2] = <<TranscriptFrame("hello")>>

\* C15: when the handler resumes from an engine call that returned and the
\* transport has closed meanwhile, nothing is sent and the handler does not
\* fail; from there the only way on is the normal end of handler().
C15_ResultDiscardedOnClose ==
    [][\A c \in Conns :
        /\ (pc[c] = "await" /\ future[c].state = "result"
               /\ transport[c] = "closed" /\ pc'[c] # "await") =>
              (sent'[c] = sent[c] /\ pc'[c] = "recv")
        /\ (pc[c] = "recv" /\ transport[c] = "closed" /\ pc'[c] # "recv") =>
              pc'[c] = "done"
      ]_vars

\* A call returned text after the client had closed: nothing reached the
\* connection and handler() ended normally.
C15_Witness ==
    /\ pc[1] = "done"
    /\ branch[1] = "transcript"
    /\ sent[1] = <<>>
    /\ transport[1] = "closed"

\* A transcript frame is added to the frames of c in the step.
TranscriptSent(c) ==
    /\ Len(sent'[c]) > Len(sent[c])
    /\ sent'[c][Len(sent'[c])].type = "transcript"

\* C22 (as claimed): a binary message of at least one whole sample handled
\* while the session is active hands exactly one call to the engine; no other
\* message, and no other step, makes a call; and a call that has returned or
\* raised is never made again.
C22_OneCallPerChunk ==
    [][\A c \in Conns :
        /\ (IsBinary(c) /\ active[c] /\ Len(message[c].bytes) \div 4 >= 1) =>
              (CallStep(c) /\ future'[c] = Pending)
        /\ (future'[c] = Pending /\ future[c] # Pending) =>
              /\ IsBinary(c) /\ active[c] /\ Len(message[c].bytes) \div 4 >= 1
              /\ future[c] = NoFuture
        /\ future[c].state \in {"result", "exception"} =>
              future'[c] \in {future[c], NoFuture}
      ]_vars

\* C23: a session that is idle holds no overlap.
C23_IdleMeansNoOverlap ==
    \A c \in Conns : ~active[c] => overlap[c] = <<>>

\* A session that had answered a chunk, and so held an overlap, was stopped.
C23_Witness ==
    /\ ~active[1]
    /\ overlap[1] = <<>>
    /\ branch[1] = "stop"
    /\ pc[1] = "recv"
    /\ sent[1] = <<TranscriptFrame("hello")>>

\* C24: a transcript frame is sent only in a step that starts and ends with
\* the session active; a stop takes effect only when no engine call of the
\* connection is outstanding, so after the transcript of the chunk before it;
\* and while the session is idle no call is outstanding that could still be
\* answered.
C24_TranscriptOnlyWhileActive ==
    [][\A c \in Conns :
        /\ TranscriptSent(c) => (active[c] /\ active'[c])
        /\ (IsText(c) /\ message[c].text \in StopPayloads /\ ~active'[c]) =>
              (future[c] = NoFuture /\ future'[c] = NoFuture)
        /\ ~active[c] => (pc[c] # "await" /\ future[c] = NoFuture)
      ]_vars

\* The transcript of a chunk has been sent while the stop the client sent
\* during the call still waits in the queue: the session is still active.
C24_Witness ==
    /\ pc[1] = "recv"
    /\ branch[1] = "transcript"
    /\ sent[1] = <<TranscriptFrame("hello")>>
    /\ inbox[1] # <<>>
    /\ inbox[1][1].text \in StopPayloads
    /\ active[1]

\* C21: a bind that fails with address in use on attempts 1 to 5 is followed
\* by a sleep of 2 seconds and the next attempt; a failure on attempt 6, or
\* with any other error on any attempt, is raised out of main(), which is the
\* end; a bind that succeeds ends the retrying; and there are never more than
\* 6 attempts.
C21_BoundedBindRetry ==
    [][/\ (main.pc = "bind" /\ main' # main) =>
            \/ main'.pc = "serving" /\ main'.errno = main.errno
            \/ /\ main'.errno = 48 /\ main.attempt \in 1..5
               /\ main'.pc = "sleep"
            \/ /\ main'.errno # 0
               /\ main'.errno # 48 \/ main.attempt = 6
               /\ main'.pc = "raised"
       /\ (main.pc = "sleep" /\ main' # main) =>
            /\ main'.pc = "bind"
            /\ main'.attempt = main.attempt + 1
            /\ main'.slept = Append(main.slept, 2)
       /\ main.pc \in {"serving", "raised"} => main' = main
       /\ main.pc # "returned" /\ main'.pc # "returned"
       /\ main.attempt \in 1..6 /\ main'.attempt \in 1..6
       /\ main.pc # "serving" => \A c \in Conns : pc[c] = "unconnected"
      ]_vars

\* Six binds in a row failed with address in use: five sleeps of 2 seconds
\* were made and the sixth failure was raised.
C21_Witness ==
    /\ main.pc = "raised"
    /\ main.attempt = 6
    /\ main.errno = 48
    /\ main.slept = <<2, 2, 2, 2, 2>>

====
